---- MODULE Spec2Model ----
(***************************************************************************)
(* Model of the danmaku crawler of src/main.py: the fingerprint merge, the *)
(* live segment loop, the history date traversal and the orchestrator.     *)
(* A datetime is the naive wall clock reading of the process, counted in   *)
(* seconds from 1970-01-01 00:00:00; a calendar date is the day number     *)
(* reading \div 86400.  A creation time is an epoch timestamp, held as a   *)
(* pair of limbs; datetime.fromtimestamp turns it into a reading by adding *)
(* the offset of the zone of the process (no DST) and raises beyond year   *)
(* 9999.  hash(str) depends on the seed of the process.  A server response *)
(* is the status, the payload length and the record list the payload       *)
(* decodes to; a crawl reads the offset, the text, the author hash and the *)
(* creation time of a record.  The protobuf decoder is modelled on bytes,  *)
(* with records of all their attributes, and is called on payloads of its  *)
(* own, as are the merge and the sort of save_danmaku_xml.                 *)
(* BilibiliAPI._request of src/utils/bilibili_api.py is modelled by its    *)
(* attempts, each of which meets a fault or a response.                    *)
(***************************************************************************)
EXTENDS Integers, Sequences, FiniteSets, TLC

VARIABLES
    pc,                \* position of the single thread of control
    entry,             \* the public method the caller invoked
    server,            \* the family of server behaviours of this run
    video_date,        \* argument: publish date (NoDate = None)
    start_days,        \* argument: start_days
    target_count,      \* argument of a direct get_history_danmaku_js_style call
    id_pool,           \* self.id_pool
    maxlimit,          \* orchestrator: estimate returned by the probe
    current_danmaku,   \* orchestrator: sample list returned by the probe
    first_segment,     \* what the probe response decoded to (kept for the claims)
    danmaku_list,      \* get_segmented_danmaku: accumulator
    segment_index,     \* get_segmented_danmaku: loop index
    segmented_danmaku, \* orchestrator: list returned by get_segmented_danmaku
    seg_requests,      \* log: the segment indexes requested, in order
    seg_last,          \* log: outcome of the latest segment round
    aldanmu,           \* get_history_danmaku_js_style: accumulator
    ldanmu,            \* get_history_danmaku_js_style: latest batch
    first_date,        \* get_history_danmaku_js_style: boundary epoch
    current_date,      \* get_history_danmaku_js_style: date to query next
    ondanmu,           \* get_history_danmaku_js_style: target count
    start_date,        \* get_history_danmaku_js_style: lower bound
    history_danmaku,   \* list returned by get_history_danmaku_js_style
    hist_called,       \* log: get_history_danmaku_js_style was entered
    hist_count,        \* log: number of history requests (saturates at HistCap)
    hist_dates,        \* log: the last two calendar dates requested, in order
    hist_sparse,       \* log: which request returned the first sparse batch (0: none)
    hist_last,         \* log: the latest history request raised, was answered, or was
                       \* answered with a batch whose boundary fromtimestamp rejects
    merged_danmaku,    \* orchestrator: the returned list
    m_pc,              \* direct merge calls: position of the caller
    m_target,          \* direct merge calls: the caller's target_list
    m_x,               \* direct merge calls: new_list of the first call
    m_y,               \* direct merge calls: new_list of another call
    m_log,             \* direct merge calls: (target_list, pool) at start and after each call
    crawl,             \* which crawl of the downloader this is (0: runs are not compared)
    resp_log,          \* compared crawls: the answer the server gave to each request
    first_result,      \* the list the first crawl returned
    d_pc,              \* direct decoder calls: position of the caller
    d_msg,             \* direct decoder calls: the fields the payload was encoded from
    d_bytes,           \* direct decoder calls: the payload
    d_out,             \* direct decoder calls: what decode_danmaku_response returned
    end_days,          \* argument end_days of get_history_danmaku_js_style
    hist_log,          \* compared runs: the dates requested, in order (first HistCap)
    first_log,         \* the dates the first run requested
    r_pc,              \* BilibiliAPI._request: position of the call
    r_args,            \* BilibiliAPI._request: method, retry and decode_level
    r_attempts,        \* BilibiliAPI._request: what each attempt made so far met
    r_result,          \* BilibiliAPI._request: what the call returned or raised
    hash_seed,         \* the process: the seed of hash(str) (PYTHONHASHSEED)
    utc_offset         \* the process: seconds its time zone is ahead of UTC

vars == <<pc, entry, server, video_date, start_days, target_count, id_pool,
          maxlimit, current_danmaku, first_segment, danmaku_list,
          segment_index, segmented_danmaku, seg_requests, seg_last, aldanmu,
          ldanmu, first_date, current_date, ondanmu, start_date,
          history_danmaku, hist_called, hist_count, hist_dates, hist_sparse,
          hist_last, merged_danmaku, m_pc, m_target, m_x, m_y, m_log, crawl,
          resp_log, first_result, d_pc, d_msg, d_bytes, d_out, end_days,
          hist_log, first_log, r_pc, r_args, r_attempts, r_result, hash_seed,
          utc_offset>>

-----------------------------------------------------------------------------
(* Bounds of the model *)

MaxBatch == 2          \* longest record list a payload decodes to
HistCap == 3           \* the history request counter saturates here

\* Mutant: the loop admits one segment more.
MaxSegmentsOneMore == 100 + 1

(* Program constants *)

DaySeconds == 86400    \* 86400 / timedelta(days=1)
MaxSegments == 100     \* while segment_index <= 100
EstimateFactor == 20   \* len(first_segment) * 20
DefaultEstimate == 5000
DensityCap == 5000     \* min(ondanmu, 5000)
NoDate == -1           \* video_date = None

Min(a, b) == IF a <= b THEN a ELSE b

Range(s) == {s[i] : i \in 1..Len(s)}

-----------------------------------------------------------------------------
(* Records *)

\* The seeds of hash(str) a process may run with (PYTHONHASHSEED).
HashSeeds == {0, 1}

\* hash(str) is a 64-bit word, written here as four 16-bit limbs, high limb
\* first (of the word modulo 2**64).  The hash is seeded per process: the
\* values are those CPython 3.11 gives with the seed of the process, for the
\* author hashes the records of the model carry; hash("") is 0 with every
\* seed.  With seed 0, "627f" and "89d8" agree in the low 32 bits.
StrHash(s) ==
    IF s = "" THEN <<0, 0, 0, 0>>
    ELSE IF hash_seed = 0
    THEN CASE s = "627f" -> <<37205, 11081, 41789, 48646>>
           [] s = "89d8" -> <<60820, 8350, 41789, 48646>>
           [] s = "cd34" -> <<25136, 34647, 60570, 16786>>
    ELSE CASE s = "627f" -> <<1976, 62430, 59535, 50477>>
           [] s = "89d8" -> <<2703, 63966, 58191, 52069>>
           [] s = "cd34" -> <<33956, 56299, 52360, 23925>>

\* h % (2**32): the two low limbs.
Mod2p32(h) == <<h[3], h[4]>>

\* Mutant: the hash of the author hash is not reduced modulo 2**32.
GetUniqueIdOfFullHash(d) ==
    <<IF d.progress = 0 THEN 1 ELSE d.progress,
      Len(d.content),
      StrHash(d.midHash)>>

\* DanmakuElement.get_unique_id: "{progress or 1}_{len(content)}_{hash % 2**32}"
get_unique_id(d) ==
    <<IF d.progress = 0 THEN 1 ELSE d.progress,
      Len(d.content),
      Mod2p32(StrHash(d.midHash))>>

Day(n) == n * DaySeconds

\* datetime.now(): what the wall clock of the process reads, in seconds
\* since 1970-01-01 00:00 of its zone (a naive datetime).
NowEpoch == Day(6) + 3600

\* An epoch timestamp (ctime, first_date) is an unbounded integer, written
\* as <<hi, lo>>: the number hi * WideBase + lo, with 0 <= lo < WideBase.
WideBase == 1000000000

\* The timestamp n.
Wide(n) == <<n \div WideBase, n % WideBase>>

\* w + n, for n of less than WideBase in size.
WidePlus(w, n) ==
    LET lo == w[2] + n
    IN  <<w[1] + (lo \div WideBase), lo % WideBase>>

\* a < b
WideLess(a, b) == a[1] < b[1] \/ (a[1] = b[1] /\ a[2] < b[2])

Danmaku(p, c, m, t) ==
    [progress |-> p, content |-> c, midHash |-> m, ctime |-> Wide(t)]

\* The records the arbitrary server draws from.  R1 and R2 share a
\* fingerprint (progress 0 counts as 1, equal text length, same author);
\* R2 was created after the clock of the run; R3 carries no creation time.
R1 == Danmaku(0, "aa", "", Day(4) + 100)
R2 == Danmaku(1, "bb", "", Day(7) + 50)
R3 == Danmaku(2000, "c", "627f", 0)
\* R3's offset and text length, another text, and another author hash: one
\* whose hash agrees with that of R3's in the low 32 bits in a process with
\* hash seed 0, and does not with hash seed 1.
R4 == Danmaku(2000, "d", "89d8", Day(4))
Recs == {R1, R2, R3}

\* A record whose creation time, 10**12, is beyond what a datetime holds.
RFar == [Danmaku(5, "q", "", 0) EXCEPT !.ctime = <<1000, 0>>]

\* The i-th record of a server whose records are all distinct.
Fresh(i) == Danmaku(5000 + i, "f", "cd34", Day(4))

RECURSIVE SeqsUpTo(_, _)
SeqsUpTo(S, n) ==
    IF n = 0 THEN {<<>>}
    ELSE LET shorter == SeqsUpTo(S, n - 1)
         IN shorter \cup {Append(s, e) : s \in shorter, e \in S}

\* n copies of record d: a batch whose size counts for the density check
\* while it holds one fingerprint.
Copies(d, n) == [i \in 1..n |-> d]

\* A batch dense enough for the estimate a one-record probe gives.
DenseBatches == {Copies(d, EstimateFactor \div 2) : d \in Recs}

Batches == SeqsUpTo(Recs, MaxBatch) \cup DenseBatches

-----------------------------------------------------------------------------
(* Server responses *)

Raised == [raises |-> TRUE, status |-> 0, length |-> 0, decoded |-> <<>>]
Http(s) == [raises |-> FALSE, status |-> s, length |-> 0, decoded |-> <<>>]
Ok(b) == [raises |-> FALSE, status |-> 200, length |-> 1 + Len(b), decoded |-> b]

\* 200 with an empty body is Http(200); Ok(<<>>) is a body with no record.
Responses ==
    {Raised} \cup {Http(s) : s \in {200, 304, 412, 500}} \cup {Ok(b) : b \in Batches}

\* The history endpoint may also answer with a record of the far future (the
\* live loop reads no creation time).
HistoryResponses == Responses \cup {Ok(<<RFar>>)}

\* A few of the responses: a fault, an error status, a batch of the day
\* before yesterday, one of after the clock, and one with a record that holds
\* no creation time.
SampledResponses ==
    {Raised, Http(412), Ok(<<R1>>), Ok(<<R2>>), Ok(<<R1, R3>>), Ok(<<RFar>>)}

\* What the server may answer to the request for segment or probe index i
\* (endpoint "seg") or for a history date (endpoint "history").
ServerResponses(endpoint, i) ==
    IF server = "arbitrary"
    THEN IF endpoint = "history" THEN HistoryResponses ELSE Responses
    ELSE IF server = "sampled" THEN SampledResponses
    ELSE IF endpoint = "seg" THEN {Ok(<<Fresh(i)>>), Http(304)}
    ELSE {Ok(<<Fresh(1)>>), Http(412)}

\* When two crawls are compared the server answers a request it has seen
\* before as it did then; a request is its endpoint with its segment index or
\* its date.  i is the index the distinct-records server numbers its record by.
Answers(url, i) ==
    IF crawl # 0 /\ \E e \in resp_log : e.url = url
    THEN {e.resp : e \in {x \in resp_log : x.url = url}}
    ELSE ServerResponses(url[1], i)

Logged(url, resp) ==
    IF crawl = 0 THEN resp_log ELSE resp_log \cup {[url |-> url, resp |-> resp]}

-----------------------------------------------------------------------------
(* BilibiliDanmakuDownloader.merge_danmaku_in_place *)

\* Mutant: the membership test is left out, every record is appended.
RECURSIVE MergeLoopNoCheck(_, _, _, _)
MergeLoopNoCheck(target_list, pool, new_list, i) ==
    IF i > Len(new_list) THEN [target_list |-> target_list, id_pool |-> pool]
    ELSE MergeLoopNoCheck(Append(target_list, new_list[i]),
                          pool \cup {get_unique_id(new_list[i])}, new_list, i + 1)

\* Mutant: an appended record's fingerprint is not added to the pool.
RECURSIVE MergeLoopNoPoolAdd(_, _, _, _)
MergeLoopNoPoolAdd(target_list, pool, new_list, i) ==
    IF i > Len(new_list) THEN [target_list |-> target_list, id_pool |-> pool]
    ELSE IF get_unique_id(new_list[i]) \notin pool
         THEN MergeLoopNoPoolAdd(Append(target_list, new_list[i]), pool,
                                 new_list, i + 1)
         ELSE MergeLoopNoPoolAdd(target_list, pool, new_list, i + 1)

\* The loop over new_list from its i-th element on: a record whose
\* fingerprint is not in the pool is appended and its fingerprint added.
RECURSIVE MergeLoop(_, _, _, _)
MergeLoop(target_list, pool, new_list, i) ==
    IF i > Len(new_list) THEN [target_list |-> target_list, id_pool |-> pool]
    ELSE LET unique_id == get_unique_id(new_list[i])
         IN IF unique_id \notin pool
            THEN MergeLoop(Append(target_list, new_list[i]),
                           pool \cup {unique_id}, new_list, i + 1)
            ELSE MergeLoop(target_list, pool, new_list, i + 1)

\* A list never has the attribute id_pool, so every call first adds the
\* fingerprints of target_list to the pool.
merge_danmaku_in_place(target_list, new_list, pool) ==
    MergeLoop(target_list,
              pool \cup {get_unique_id(d) : d \in Range(target_list)},
              new_list, 1)

-----------------------------------------------------------------------------
(* BilibiliDanmakuDownloader.get_current_danmaku_info *)

\* What the probe decodes: first_segment, empty when nothing was decoded.
ProbeSample(resp) ==
    IF ~resp.raises /\ resp.status = 200 /\ resp.length > 0
    THEN resp.decoded ELSE <<>>

\* The pair (estimate, sample list) the probe returns.
get_current_danmaku_info(resp) ==
    IF resp.raises THEN <<DefaultEstimate, <<>> >>
    ELSE IF resp.status = 200 /\ resp.length > 0 /\ resp.decoded # <<>>
    THEN <<Len(resp.decoded) * EstimateFactor, <<>> >>
    ELSE <<DefaultEstimate, <<>> >>

-----------------------------------------------------------------------------
(* BilibiliDanmakuDownloader.get_segmented_danmaku: one pass of the loop *)

\* Mutant: a request that raises is tried again instead of ending the loop.
SegmentRoundRetryOnFault(list, pool, index, resp) ==
    LET stay(cause) == [danmaku_list |-> list, id_pool |-> pool,
                        segment_index |-> index, brk |-> TRUE,
                        cause |-> cause, new_count |-> 0]
    IN  IF resp.raises
        THEN [danmaku_list |-> list, id_pool |-> pool, segment_index |-> index,
              brk |-> FALSE, cause |-> "raised", new_count |-> 0]
        ELSE IF resp.status = 304 THEN stay("not_modified")
        ELSE IF resp.status # 200 THEN stay("http_error")
        ELSE IF resp.length = 0 THEN stay("empty")
        ELSE IF resp.decoded = <<>> THEN stay("no_records")
        ELSE LET m == merge_danmaku_in_place(list, resp.decoded, pool)
                 new_count == Len(m.target_list) - Len(list)
             IN IF new_count = 0
                THEN [danmaku_list |-> m.target_list, id_pool |-> m.id_pool,
                      segment_index |-> index, brk |-> TRUE,
                      cause |-> "no_new", new_count |-> 0]
                ELSE [danmaku_list |-> m.target_list, id_pool |-> m.id_pool,
                      segment_index |-> index + 1, brk |-> FALSE,
                      cause |-> "more", new_count |-> new_count]

\* Mutant: a round that adds no new record does not end the loop.
SegmentRoundNoSaturationStop(list, pool, index, resp) ==
    LET stay(cause) == [danmaku_list |-> list, id_pool |-> pool,
                        segment_index |-> index, brk |-> TRUE,
                        cause |-> cause, new_count |-> 0]
    IN  IF resp.raises THEN stay("raised")
        ELSE IF resp.status = 304 THEN stay("not_modified")
        ELSE IF resp.status # 200 THEN stay("http_error")
        ELSE IF resp.length = 0 THEN stay("empty")
        ELSE IF resp.decoded = <<>> THEN stay("no_records")
        ELSE LET m == merge_danmaku_in_place(list, resp.decoded, pool)
                 new_count == Len(m.target_list) - Len(list)
             IN [danmaku_list |-> m.target_list, id_pool |-> m.id_pool,
                 segment_index |-> index + 1, brk |-> FALSE,
                 cause |-> IF new_count = 0 THEN "no_new" ELSE "more",
                 new_count |-> new_count]

SegmentRound(list, pool, index, resp) ==
    LET stay(cause) == [danmaku_list |-> list, id_pool |-> pool,
                        segment_index |-> index, brk |-> TRUE,
                        cause |-> cause, new_count |-> 0]
    IN  IF resp.raises THEN stay("raised")
        ELSE IF resp.status = 304 THEN stay("not_modified")
        ELSE IF resp.status # 200 THEN stay("http_error")
        ELSE IF resp.length = 0 THEN stay("empty")
        ELSE IF resp.decoded = <<>> THEN stay("no_records")
        ELSE LET m == merge_danmaku_in_place(list, resp.decoded, pool)
                 new_count == Len(m.target_list) - Len(list)
             IN IF new_count = 0
                THEN [danmaku_list |-> m.target_list, id_pool |-> m.id_pool,
                      segment_index |-> index, brk |-> TRUE,
                      cause |-> "no_new", new_count |-> 0]
                ELSE [danmaku_list |-> m.target_list, id_pool |-> m.id_pool,
                      segment_index |-> index + 1, brk |-> FALSE,
                      cause |-> "more", new_count |-> new_count]

-----------------------------------------------------------------------------
(* BilibiliDanmakuDownloader.get_history_danmaku_js_style *)

\* strftime('%Y-%m-%d') of a datetime: its calendar day.
DateOf(t) == t \div DaySeconds

RECURSIVE MinCtimeFrom(_, _)
MinCtimeFrom(list, i) ==
    IF i = Len(list) THEN list[i].ctime
    ELSE LET rest == MinCtimeFrom(list, i + 1)
         IN IF WideLess(rest, list[i].ctime) THEN rest ELSE list[i].ctime

\* min(d.ctime for d in ldanmu), of a non-empty list.
MinCtime(list) == MinCtimeFrom(list, 1)

\* len(batch) < min(ondanmu, 5000) * 0.5, on integers.
Sparse(batch, target) == 2 * Len(batch) < Min(target, DensityCap)

\* The query gate of an iteration.
QueryGate(boundary, batch, target) ==
    boundary = Wide(0) \/ ~Sparse(batch, target)

\* The boundary after a non-empty batch whose earliest record is min_ctime.
Retarget(boundary, min_ctime) ==
    IF boundary # Wide(0) /\ WideLess(boundary, WidePlus(min_ctime, DaySeconds))
    THEN WidePlus(min_ctime, -DaySeconds)
    ELSE min_ctime

\* datetime.max as a timestamp of UTC: 9999-12-31 23:59:59.
MaxTimestamp == <<253, 402300799>>

\* datetime.fromtimestamp(t) raises (inside the try statement) when the
\* wall clock of the process at t is beyond the year 9999.
FromTimestampRaises(t) == WideLess(MaxTimestamp, WidePlus(t, utc_offset))

\* datetime.fromtimestamp(t): the wall clock of the process at t, a naive
\* datetime.  The timestamps the model converts are at least -DaySeconds
\* and, unless the call raises, less than 2**31 - DaySeconds.
FromTimestamp(t) == t[1] * WideBase + t[2] + utc_offset

\* The request part of an iteration: the locals after the response.
HistoryResponse(acc, boundary, date, pool, resp) ==
    LET empty == [aldanmu |-> acc, ldanmu |-> <<>>, first_date |-> boundary,
                  current_date |-> date, id_pool |-> pool]
    IN  IF resp.raises THEN empty
        ELSE IF resp.status = 200
        THEN IF resp.length = 0 THEN empty
             ELSE IF resp.decoded # <<>>
             THEN LET m == merge_danmaku_in_place(acc, resp.decoded, pool)
                      tfirstdate == Retarget(boundary, MinCtime(resp.decoded))
                  IN IF FromTimestampRaises(tfirstdate)
                     THEN [aldanmu |-> m.target_list, ldanmu |-> <<>>,
                           first_date |-> tfirstdate, current_date |-> date,
                           id_pool |-> m.id_pool]
                     ELSE [aldanmu |-> m.target_list, ldanmu |-> resp.decoded,
                           first_date |-> tfirstdate,
                           current_date |-> FromTimestamp(tfirstdate),
                           id_pool |-> m.id_pool]
             ELSE empty
        ELSE empty

\* Mutant: the density check reads the accumulated list, not the last batch.
HistoryRoundDensityOfTotal(acc, batch, boundary, date, target, pool, resp) ==
    LET gate == QueryGate(boundary, batch, target)
        r == IF gate THEN HistoryResponse(acc, boundary, date, pool, resp)
             ELSE [aldanmu |-> acc, ldanmu |-> batch, first_date |-> boundary,
                   current_date |-> date, id_pool |-> pool]
        brk == Sparse(r.aldanmu, target)
    IN  [aldanmu |-> r.aldanmu, ldanmu |-> r.ldanmu,
         first_date |-> r.first_date,
         current_date |-> IF ~brk /\ r.first_date = Wide(0)
                          THEN r.current_date - DaySeconds
                          ELSE r.current_date,
         id_pool |-> r.id_pool, brk |-> brk, requested |-> gate]

\* One pass of the loop body: the gate, the request, the density check and
\* the one-day fallback.  requested tells whether a request was sent.
HistoryRound(acc, batch, boundary, date, target, pool, resp) ==
    LET gate == QueryGate(boundary, batch, target)
        r == IF gate THEN HistoryResponse(acc, boundary, date, pool, resp)
             ELSE [aldanmu |-> acc, ldanmu |-> batch, first_date |-> boundary,
                   current_date |-> date, id_pool |-> pool]
        brk == Sparse(r.ldanmu, target)
    IN  [aldanmu |-> r.aldanmu, ldanmu |-> r.ldanmu,
         first_date |-> r.first_date,
         current_date |-> IF ~brk /\ r.first_date = Wide(0)
                          THEN r.current_date - DaySeconds
                          ELSE r.current_date,
         id_pool |-> r.id_pool, brk |-> brk, requested |-> gate]

-----------------------------------------------------------------------------
(* BilibiliDanmakuDownloader.get_complete_danmaku_js_style: the final merge *)

RECURSIVE FinalMergeLoop(_, _, _, _)
FinalMergeLoop(merged, pool, list, i) ==
    IF i > Len(list) THEN merged
    ELSE LET unique_id == get_unique_id(list[i])
         IN IF unique_id \notin pool
            THEN FinalMergeLoop(Append(merged, list[i]), pool \cup {unique_id},
                                list, i + 1)
            ELSE FinalMergeLoop(merged, pool, list, i + 1)

\* The lists are merged in the order probe sample, live, history into a
\* fresh list and a fresh pool; an empty list is left out, which changes
\* nothing.
FinalMerge(current, segmented, history) ==
    FinalMergeLoop(<<>>, {}, current \o segmented \o history, 1)

-----------------------------------------------------------------------------
(* The calls a run makes *)

Complete == "get_complete_danmaku_js_style"
History == "get_history_danmaku_js_style"

VideoDates == {NoDate, Day(2), Day(6)}
\* get_history_danmaku_js_style(..., end_days: int = 1, ...)
HistoryEndDays == 1

\* get_complete_danmaku_js_style: end_days when the caller gives none.
DefaultEndDays(date) == IF date # NoDate THEN 1 ELSE -1

\* The request of one date, kept by the runs that are compared.
RequestLogged(date) ==
    IF crawl = 0 \/ Len(hist_log) >= HistCap THEN hist_log
    ELSE Append(hist_log, date)

StartDays == {0, 2}
TargetCounts == {0, 2, 3}

\* The time zones a process may run in: EST5, UTC and CST-8 (no DST).
UtcOffsets == {-18000, 0, 28800}

\* The process the downloader lives in: a seed and a zone.
Process ==
    /\ hash_seed \in HashSeeds
    /\ utc_offset \in UtcOffsets

\* One process: seed 0, UTC.  The crawls against the arbitrary servers run in
\* it, and the calls that read neither a hash nor a clock.
CrawlProcess == hash_seed = 0 /\ utc_offset = 0

\* A new downloader (empty pool) on which the caller invokes the orchestrator
\* or the history traversal alone.
CrawlIdle ==
    /\ maxlimit = 0
    /\ current_danmaku = <<>>
    /\ first_segment = <<>>
    /\ danmaku_list = <<>>
    /\ segment_index = 1
    /\ segmented_danmaku = <<>>
    /\ seg_requests = <<>>
    /\ seg_last = "none"
    /\ aldanmu = <<>>
    /\ ldanmu = <<>>
    /\ first_date = Wide(0)
    /\ current_date = 0
    /\ ondanmu = 0
    /\ start_date = 0
    /\ history_danmaku = <<>>
    /\ hist_called = FALSE
    /\ hist_count = 0
    /\ hist_dates = <<>>
    /\ hist_sparse = 0
    /\ hist_last = "none"
    /\ merged_danmaku = <<>>

\* No direct call of merge_danmaku_in_place, save_danmaku_xml or the decoder.
MergeIdle == m_pc = "off" /\ m_target = <<>> /\ m_x = <<>> /\ m_y = <<>> /\ m_log = <<>>
DecodeIdle == d_pc = "off" /\ d_msg = <<>> /\ d_bytes = <<>> /\ d_out = <<>>
RequestIdle == r_pc = "off" /\ r_args = <<>> /\ r_attempts = <<>> /\ r_result = <<>>

Init ==
    /\ \/ entry = Complete /\ server \in {"arbitrary", "distinct"}
          /\ target_count = 0 /\ pc = "probe"
       \/ entry = History /\ server \in {"arbitrary", "sampled"}
          /\ target_count \in TargetCounts /\ pc = "hist_call"
    /\ video_date \in VideoDates
    /\ start_days \in StartDays
    /\ end_days = IF entry = Complete THEN DefaultEndDays(video_date)
                  ELSE HistoryEndDays
    /\ Process
    /\ server # "sampled" => CrawlProcess
    /\ id_pool = {}
    /\ CrawlIdle
    /\ MergeIdle
    /\ DecodeIdle
    /\ crawl = 0 /\ resp_log = {} /\ first_result = <<>>
    /\ hist_log = <<>> /\ first_log = <<>>
    /\ RequestIdle

segVars == <<danmaku_list, segment_index, segmented_danmaku, seg_requests, seg_last>>
histVars == <<aldanmu, ldanmu, first_date, current_date, ondanmu, start_date,
              history_danmaku, hist_called, hist_count, hist_dates, hist_sparse,
              hist_last>>
argVars == <<entry, server, video_date, start_days, target_count, end_days,
            hash_seed, utc_offset>>
mergeVars == <<m_pc, m_target, m_x, m_y, m_log>>
decodeVars == <<d_pc, d_msg, d_bytes, d_out>>
requestVars == <<r_pc, r_args, r_attempts, r_result>>
runVars == <<crawl, resp_log, first_result, hist_log, first_log>>

\* Orchestrator step 1: the probe, then the call of get_segmented_danmaku.
Probe ==
    /\ pc = "probe"
    /\ \E resp \in Answers(<<"seg", 1>>, 1) :
          /\ maxlimit' = get_current_danmaku_info(resp)[1]
          /\ current_danmaku' = get_current_danmaku_info(resp)[2]
          /\ first_segment' = ProbeSample(resp)
          /\ resp_log' = Logged(<<"seg", 1>>, resp)
    /\ danmaku_list' = <<>>
    /\ segment_index' = 1
    /\ pc' = "live"
    /\ UNCHANGED <<mergeVars, decodeVars, requestVars, crawl, first_result, hist_log, first_log, argVars, id_pool, segmented_danmaku, seg_requests, seg_last,
                   histVars, merged_danmaku>>

\* One iteration of the segment loop; a break returns the list.
SegmentIteration ==
    /\ pc = "live"
    /\ segment_index <= MaxSegments
    /\ \E resp \in Answers(<<"seg", segment_index>>, segment_index) :
          LET r == SegmentRound(danmaku_list, id_pool, segment_index, resp)
          IN  /\ resp_log' = Logged(<<"seg", segment_index>>, resp)
              /\ danmaku_list' = r.danmaku_list
              /\ id_pool' = r.id_pool
              /\ segment_index' = r.segment_index
              /\ seg_last' = r.cause
              /\ IF r.brk
                 THEN pc' = "hist_call" /\ segmented_danmaku' = r.danmaku_list
                 ELSE pc' = "live" /\ UNCHANGED segmented_danmaku
    /\ seg_requests' = Append(seg_requests, segment_index)
    /\ UNCHANGED <<mergeVars, decodeVars, requestVars, crawl, first_result, hist_log, first_log, argVars, maxlimit, current_danmaku, first_segment, histVars,
                   merged_danmaku>>

\* The loop condition fails: the list is returned.
SegmentReturn ==
    /\ pc = "live"
    /\ ~(segment_index <= MaxSegments)
    /\ segmented_danmaku' = danmaku_list
    /\ pc' = "hist_call"
    /\ UNCHANGED <<mergeVars, decodeVars, requestVars, runVars, argVars, id_pool, maxlimit, current_danmaku, first_segment,
                   danmaku_list, segment_index, seg_requests, seg_last,
                   histVars, merged_danmaku>>

\* Where control goes when get_history_danmaku_js_style returns.
AfterHistory == IF entry = Complete THEN "merge" ELSE "done"

\* Mutant: the guard forgets the publish date.
HistoryWantedWithoutDate == maxlimit > 0

\* Orchestrator step 3: the guard of the history phase.
HistoryWanted == video_date # NoDate /\ maxlimit > 0

\* The orchestrator leaves the history phase out.
SkipHistory ==
    /\ pc = "hist_call"
    /\ entry = Complete
    /\ ~HistoryWanted
    /\ pc' = "merge"
    /\ UNCHANGED <<mergeVars, decodeVars, requestVars, runVars, argVars, id_pool, maxlimit, current_danmaku, first_segment,
                   segVars, histVars, merged_danmaku>>

\* Mutant: with an end_days the traversal starts that many days after the
\* publish date.
TraversalStartFromPublishDate(days) ==
    IF days # -1 THEN video_date + days * DaySeconds
    ELSE NowEpoch - DaySeconds

\* The date the traversal starts at: both branches on end_days assign
\* datetime.now() - timedelta(days=1).
TraversalStart(days) ==
    IF days # -1 THEN NowEpoch - DaySeconds
    ELSE NowEpoch - DaySeconds

\* Entry of get_history_danmaku_js_style, up to the loop.
HistoryCall ==
    /\ pc = "hist_call"
    /\ entry = Complete => HistoryWanted
    /\ hist_called' = TRUE
    /\ IF video_date = NoDate
       THEN /\ history_danmaku' = <<>>
            /\ pc' = AfterHistory
            /\ UNCHANGED <<aldanmu, ldanmu, first_date, current_date, ondanmu,
                           start_date>>
       ELSE /\ aldanmu' = <<>>
            /\ ldanmu' = <<>>
            /\ first_date' = Wide(0)
            /\ ondanmu' = IF entry = Complete THEN maxlimit ELSE target_count
            /\ current_date' = TraversalStart(end_days)
            /\ start_date' = video_date + start_days * DaySeconds
            /\ pc' = "hist"
            /\ UNCHANGED history_danmaku
    /\ UNCHANGED <<mergeVars, decodeVars, requestVars, runVars, argVars, id_pool, maxlimit, current_danmaku, first_segment,
                   segVars, hist_count, hist_dates, hist_sparse, hist_last,
                   merged_danmaku>>

\* Mutant: the loop has no lower bound.
HistoryLoopConditionAlways == TRUE

\* while current_date >= start_date
HistoryLoopCondition == current_date >= start_date

\* One iteration of the history loop; a break returns the list.
HistoryIteration ==
    /\ pc = "hist"
    /\ HistoryLoopCondition
    /\ \E resp \in Answers(<<"history", DateOf(current_date)>>, 0) :
          LET r == HistoryRound(aldanmu, ldanmu, first_date, current_date,
                                ondanmu, id_pool, resp)
              n == Min(hist_count + 1, HistCap)
          IN  /\ aldanmu' = r.aldanmu
              /\ ldanmu' = r.ldanmu
              /\ first_date' = r.first_date
              /\ current_date' = r.current_date
              /\ id_pool' = r.id_pool
              /\ IF r.brk
                 THEN pc' = AfterHistory /\ history_danmaku' = r.aldanmu
                 ELSE pc' = "hist" /\ UNCHANGED history_danmaku
              /\ IF r.requested
                 THEN /\ hist_count' = n
                      /\ hist_dates' = IF hist_dates = <<>>
                                       THEN <<DateOf(current_date)>>
                                       ELSE <<hist_dates[Len(hist_dates)],
                                              DateOf(current_date)>>
                      /\ hist_sparse' = IF hist_sparse = 0 /\ Sparse(r.ldanmu, ondanmu)
                                        THEN n ELSE hist_sparse
                      /\ hist_last' = IF resp.raises THEN "raised"
                                      ELSE IF resp.decoded # <<>> /\ r.ldanmu = <<>>
                                      THEN "unconverted"
                                      ELSE "answered"
                      /\ resp_log' = Logged(<<"history", DateOf(current_date)>>, resp)
                      /\ hist_log' = RequestLogged(DateOf(current_date))
                 ELSE UNCHANGED <<hist_count, hist_dates, hist_sparse, hist_last,
                                  resp_log, hist_log>>
    /\ UNCHANGED <<mergeVars, decodeVars, requestVars, crawl, first_result, first_log, argVars,
                   maxlimit, current_danmaku, first_segment, segVars,
                   ondanmu, start_date, hist_called, merged_danmaku>>

\* The loop condition fails: the list is returned.
HistoryReturn ==
    /\ pc = "hist"
    /\ ~HistoryLoopCondition
    /\ history_danmaku' = aldanmu
    /\ pc' = AfterHistory
    /\ UNCHANGED <<mergeVars, decodeVars, requestVars, runVars, argVars, id_pool, maxlimit, current_danmaku, first_segment,
                   segVars, aldanmu, ldanmu, first_date, current_date, ondanmu,
                   start_date, hist_called, hist_count, hist_dates, hist_sparse,
                   hist_last, merged_danmaku>>

\* Orchestrator step 4: the merge of the lists, and the return.
MergeAll ==
    /\ pc = "merge"
    /\ merged_danmaku' = FinalMerge(current_danmaku, segmented_danmaku,
                                    history_danmaku)
    /\ pc' = "done"
    /\ UNCHANGED <<mergeVars, decodeVars, requestVars, runVars, argVars, id_pool, maxlimit, current_danmaku, first_segment,
                   segVars, histVars>>

Next ==
    \/ Probe
    \/ SegmentIteration
    \/ SegmentReturn
    \/ SkipHistory
    \/ HistoryCall
    \/ HistoryIteration
    \/ HistoryReturn
    \/ MergeAll

Spec == Init /\ [][Next]_vars

\* A direct call of get_history_danmaku_js_style on a new downloader.  The
\* single thread of control always takes its next step.
HistoryInit == Init /\ entry = History

HistoryNext == HistoryCall \/ HistoryIteration \/ HistoryReturn

HistorySpec == HistoryInit /\ [][HistoryNext]_vars /\ WF_vars(HistoryNext)

-----------------------------------------------------------------------------
(* Two calls of get_complete_danmaku_js_style on one downloader, against a  *)
(* server that answers the second crawl as it answered the first.           *)

RepeatInit ==
    /\ entry = Complete /\ server = "distinct"
    /\ target_count = 0 /\ pc = "probe"
    /\ video_date \in VideoDates
    /\ start_days \in StartDays
    /\ end_days = DefaultEndDays(video_date)
    /\ Process
    /\ id_pool = {}
    /\ CrawlIdle
    /\ MergeIdle
    /\ DecodeIdle
    /\ crawl = 1 /\ resp_log = {} /\ first_result = <<>>
    /\ hist_log = <<>> /\ first_log = <<>>
    /\ RequestIdle

\* The first crawl has returned; the caller keeps its list and calls again.
\* The locals of the new call start afresh, self.id_pool is what the first
\* crawl left.
CrawlAgain ==
    /\ pc = "done"
    /\ crawl = 1
    /\ first_result' = merged_danmaku
    /\ crawl' = 2
    /\ pc' = "probe"
    /\ maxlimit' = 0
    /\ current_danmaku' = <<>>
    /\ first_segment' = <<>>
    /\ danmaku_list' = <<>>
    /\ segment_index' = 1
    /\ segmented_danmaku' = <<>>
    /\ seg_requests' = <<>>
    /\ seg_last' = "none"
    /\ aldanmu' = <<>>
    /\ ldanmu' = <<>>
    /\ first_date' = Wide(0)
    /\ current_date' = 0
    /\ ondanmu' = 0
    /\ start_date' = 0
    /\ history_danmaku' = <<>>
    /\ hist_called' = FALSE
    /\ hist_count' = 0
    /\ hist_dates' = <<>>
    /\ hist_sparse' = 0
    /\ hist_last' = "none"
    /\ merged_danmaku' = <<>>
    /\ first_log' = hist_log
    /\ hist_log' = <<>>
    /\ UNCHANGED <<mergeVars, decodeVars, requestVars, argVars, id_pool, resp_log>>

RepeatNext ==
    \/ Probe
    \/ SegmentIteration
    \/ SegmentReturn
    \/ SkipHistory
    \/ HistoryCall
    \/ HistoryIteration
    \/ HistoryReturn
    \/ MergeAll
    \/ CrawlAgain

RepeatSpec == RepeatInit /\ [][RepeatNext]_vars

-----------------------------------------------------------------------------
(* Two runs of get_history_danmaku_js_style that differ in end_days only:   *)
(* each on an empty pool, with one clock, against a server that answers the *)
(* request of a date as it answered it before.                              *)

EndDays == {-1, 1, 3}

EndDaysInit ==
    /\ entry = History /\ server = "sampled"
    /\ target_count \in TargetCounts /\ pc = "hist_call"
    /\ video_date \in VideoDates
    /\ start_days \in StartDays
    /\ end_days \in EndDays
    /\ Process
    /\ id_pool = {}
    /\ CrawlIdle
    /\ MergeIdle
    /\ DecodeIdle
    /\ RequestIdle
    /\ crawl = 1 /\ resp_log = {} /\ first_result = <<>>
    /\ hist_log = <<>> /\ first_log = <<>>

\* The first run has returned; the caller keeps its list and its requests and
\* calls again with another end_days, on a pool as the first run found it.
HistoryAgain ==
    /\ pc = "done"
    /\ entry = History
    /\ crawl = 1
    /\ \E days \in EndDays \ {end_days} : end_days' = days
    /\ first_result' = history_danmaku
    /\ first_log' = hist_log
    /\ hist_log' = <<>>
    /\ crawl' = 2
    /\ id_pool' = {}
    /\ pc' = "hist_call"
    /\ aldanmu' = <<>>
    /\ ldanmu' = <<>>
    /\ first_date' = Wide(0)
    /\ current_date' = 0
    /\ ondanmu' = 0
    /\ start_date' = 0
    /\ history_danmaku' = <<>>
    /\ hist_called' = FALSE
    /\ hist_count' = 0
    /\ hist_dates' = <<>>
    /\ hist_sparse' = 0
    /\ hist_last' = "none"
    /\ UNCHANGED <<mergeVars, decodeVars, requestVars, entry, server, video_date,
                   start_days, target_count, hash_seed, utc_offset, resp_log,
                   maxlimit,
                   current_danmaku, first_segment, segVars, merged_danmaku>>

EndDaysNext == HistoryCall \/ HistoryIteration \/ HistoryReturn \/ HistoryAgain

EndDaysSpec == EndDaysInit /\ [][EndDaysNext]_vars

-----------------------------------------------------------------------------
(* Direct calls of merge_danmaku_in_place on a downloader: the caller holds *)
(* a list, merges x into it, and then merges x again or merges y.          *)

Merge == "merge_danmaku_in_place"

\* Pools a downloader may hold from earlier calls.
Pools == {{}, {get_unique_id(R1)}}

\* The lists a caller may merge first: the batches of a crawl, and lists of
\* the two records that differ in text only where the fingerprint looks.
MergeLists == Batches \cup SeqsUpTo({R3, R4}, MaxBatch)

MergeInit ==
    /\ entry = Merge /\ server = "arbitrary" /\ pc = "idle"
    /\ video_date = NoDate /\ start_days = 0 /\ target_count = 0
    /\ end_days = HistoryEndDays
    /\ Process
    /\ CrawlIdle
    /\ DecodeIdle
    /\ crawl = 0 /\ resp_log = {} /\ first_result = <<>>
    /\ hist_log = <<>> /\ first_log = <<>>
    /\ RequestIdle
    /\ id_pool \in Pools
    /\ m_target \in SeqsUpTo(Recs, MaxBatch)
    /\ m_x \in MergeLists
    /\ m_y = <<>>
    /\ m_pc = "first"
    /\ m_log = <<[target_list |-> m_target, id_pool |-> id_pool]>>

MergeCall(new_list, next_pc) ==
    LET m == merge_danmaku_in_place(m_target, new_list, id_pool)
    IN  /\ m_target' = m.target_list
        /\ id_pool' = m.id_pool
        /\ m_log' = Append(m_log, m)
        /\ m_pc' = next_pc
        /\ UNCHANGED <<argVars, requestVars, pc, maxlimit, current_danmaku, first_segment,
                       segVars, histVars, merged_danmaku, m_x, decodeVars,
                       runVars>>

MergeFirst == m_pc = "first" /\ MergeCall(m_x, "second") /\ UNCHANGED m_y

MergeAgain == m_pc = "second" /\ MergeCall(m_x, "again_done") /\ UNCHANGED m_y

MergeOther ==
    /\ m_pc = "second"
    /\ \E y \in Batches : m_y' = y /\ MergeCall(y, "other_done")

MergeNext == MergeFirst \/ MergeAgain \/ MergeOther

MergeSpec == MergeInit /\ [][MergeNext]_vars

-----------------------------------------------------------------------------
(* BilibiliDanmakuDownloader.save_danmaku_xml, called on a list *)

Save == "save_danmaku_xml"

MaxSave == 3

\* Lists a caller may hand over: any order, equal offsets included.
SaveLists == SeqsUpTo(Recs \cup {R4, Fresh(1)}, MaxSave)

\* Mutant: the sort key is the creation time.
RECURSIVE SortByCtime(_)
SortByCtime(list) ==
    IF list = <<>> THEN <<>>
    ELSE LET n == Len(list)
             front == SortByCtime(SubSeq(list, 1, n - 1))
             x == list[n]
             k == Cardinality({i \in 1..(n - 1) :
                                  ~WideLess(x.ctime, front[i].ctime)})
         IN SubSeq(front, 1, k) \o <<x>> \o SubSeq(front, k + 1, n - 1)

\* list.sort(key=lambda x: x.progress): ascending and stable, so an element
\* goes behind the earlier elements whose key is not greater than its own.
RECURSIVE SortByProgress(_)
SortByProgress(list) ==
    IF list = <<>> THEN <<>>
    ELSE LET n == Len(list)
             front == SortByProgress(SubSeq(list, 1, n - 1))
             x == list[n]
             k == Cardinality({i \in 1..(n - 1) : front[i].progress <= x.progress})
         IN SubSeq(front, 1, k) \o <<x>> \o SubSeq(front, k + 1, n - 1)

SaveInit ==
    /\ entry = Save /\ server = "arbitrary" /\ pc = "idle"
    /\ video_date = NoDate /\ start_days = 0 /\ target_count = 0
    /\ end_days = HistoryEndDays
    /\ CrawlProcess
    /\ CrawlIdle
    /\ DecodeIdle
    /\ crawl = 0 /\ resp_log = {} /\ first_result = <<>>
    /\ hist_log = <<>> /\ first_log = <<>>
    /\ RequestIdle
    /\ id_pool = {}
    /\ m_target \in SaveLists
    /\ m_x = m_target
    /\ m_y = <<>>
    /\ m_pc = "save"
    /\ m_log = <<>>

\* The call: the caller's list is sorted in place, and the file holds the
\* count of the list and one element per record, in the order of the list.
SaveXml ==
    /\ m_pc = "save"
    /\ m_target' = SortByProgress(m_target)
    /\ m_log' = <<[maxlimit |-> Len(m_target), elements |-> SortByProgress(m_target)]>>
    /\ m_pc' = "saved"
    /\ UNCHANGED <<argVars, requestVars, pc, id_pool, maxlimit, current_danmaku, first_segment,
                   segVars, histVars, merged_danmaku, m_x, m_y, decodeVars,
                   runVars>>

SaveNext == SaveXml

SaveSpec == SaveInit /\ [][SaveNext]_vars

-----------------------------------------------------------------------------
(* ProtobufDecoder.  A payload is a sequence of bytes 0..255, positions    *)
(* count from 0 as in the code, and a decoded string is the sequence of    *)
(* its code points.                                                        *)

\* data[a:b] of a bytes object: the slice is cut at the end of the data.
Slice(data, a, b) ==
    IF a >= Len(data) \/ b <= a THEN <<>>
    ELSE SubSeq(data, a + 1, Min(b, Len(data)))

\* The loop of decode_varint: mult is 2^shift, and the or of the shifted
\* seven bits is a sum because the bits do not overlap.  The value is an
\* integer of the checker, which holds a varint of up to four bytes.
RECURSIVE VarintLoop(_, _, _, _)
VarintLoop(data, pos, mult, result) ==
    IF ~(pos < Len(data)) THEN <<result, pos>>
    ELSE LET byte == data[pos + 1]
             r == result + (byte % 128) * mult
         IN IF byte < 128 THEN <<r, pos + 1>>
            ELSE VarintLoop(data, pos + 1, mult * 128, r)

\* ProtobufDecoder.decode_varint: the value and the position behind it.
decode_varint(data, offset) == VarintLoop(data, offset, 1, 0)

\* UTF-8: the length of the sequence a lead byte announces (0: not a lead).
Utf8Length(lead) ==
    IF lead < 128 THEN 1
    ELSE IF lead >= 194 /\ lead <= 223 THEN 2
    ELSE IF lead >= 224 /\ lead <= 239 THEN 3
    ELSE IF lead >= 240 /\ lead <= 244 THEN 4
    ELSE 0

\* Whether byte may stand at place j (1: right behind the lead) of a sequence.
Utf8Continues(lead, j, byte) ==
    IF j = 1 /\ lead = 224 THEN byte >= 160 /\ byte <= 191
    ELSE IF j = 1 /\ lead = 237 THEN byte >= 128 /\ byte <= 159
    ELSE IF j = 1 /\ lead = 240 THEN byte >= 144 /\ byte <= 191
    ELSE IF j = 1 /\ lead = 244 THEN byte >= 128 /\ byte <= 143
    ELSE byte >= 128 /\ byte <= 191

\* The code point of the complete sequence of n bytes at place i (from 1).
Utf8CodePoint(bytes, i, n) ==
    IF n = 1 THEN bytes[i]
    ELSE IF n = 2 THEN (bytes[i] - 192) * 64 + (bytes[i + 1] - 128)
    ELSE IF n = 3 THEN (bytes[i] - 224) * 4096 + (bytes[i + 1] - 128) * 64
                       + (bytes[i + 2] - 128)
    ELSE (bytes[i] - 240) * 262144 + (bytes[i + 1] - 128) * 4096
         + (bytes[i + 2] - 128) * 64 + (bytes[i + 3] - 128)

\* bytes.decode('utf-8', errors='ignore') from place i: a complete sequence
\* gives its code point; otherwise the lead and the continuation bytes that
\* fit it are left out and decoding resumes behind them.
RECURSIVE Utf8Decode(_, _)
Utf8Decode(bytes, i) ==
    IF i > Len(bytes) THEN <<>>
    ELSE LET n == Utf8Length(bytes[i])
             fits(j) == i + j <= Len(bytes) /\ Utf8Continues(bytes[i], j, bytes[i + j])
             good == Cardinality({j \in 1..(n - 1) : \A m \in 1..j : fits(m)})
         IN IF n = 0 THEN Utf8Decode(bytes, i + 1)
            ELSE IF good = n - 1
            THEN <<Utf8CodePoint(bytes, i, n)>> \o Utf8Decode(bytes, i + n)
            ELSE Utf8Decode(bytes, i + 1 + good)

\* ProtobufDecoder.decode_string: the strict decoding of a valid slice is
\* what the lenient one gives, so the lenient one stands for both.
decode_string(data, offset, length) == Utf8Decode(Slice(data, offset, offset + length), 1)

\* Mutant: field 2 is taken for the mode.
FieldMapProgressAsMode ==
    (1 :> "id") @@ (2 :> "mode") @@ (4 :> "fontsize") @@
    (5 :> "color") @@ (8 :> "ctime") @@ (9 :> "weight") @@ (11 :> "pool")

field_map ==
    (1 :> "id") @@ (2 :> "progress") @@ (3 :> "mode") @@ (4 :> "fontsize") @@
    (5 :> "color") @@ (8 :> "ctime") @@ (9 :> "weight") @@ (11 :> "pool")

string_map == (6 :> "midHash") @@ (7 :> "content") @@ (12 :> "idStr")

\* A dict: a function from its keys.
EmptyDict == [k \in {} |-> {}]

\* element[key] = value
Put(element, key, value) ==
    [k \in DOMAIN element \cup {key} |-> IF k = key THEN value ELSE element[k]]

\* data.get(key, default)
Get(data, key, default) == IF key \in DOMAIN data THEN data[key] ELSE default

\* Mutant: the bytes of a length-delimited field the decoder has no name for
\* are not stepped over, so they are read as fields.
RECURSIVE ElementLoopReadsUnknown(_, _, _)
ElementLoopReadsUnknown(data, pos, element) ==
    IF ~(pos < Len(data)) THEN element
    ELSE LET tag == decode_varint(data, pos)
             field_number == tag[1] \div 8
             wire_type == tag[1] % 8
         IN IF wire_type = 0
            THEN LET v == decode_varint(data, tag[2])
                 IN ElementLoopReadsUnknown(data, v[2],
                        IF field_number \in DOMAIN field_map
                        THEN Put(element, field_map[field_number], v[1])
                        ELSE element)
            ELSE IF wire_type = 2
            THEN LET l == decode_varint(data, tag[2])
                     string_value == decode_string(data, l[2], l[1])
                 IN IF field_number \in DOMAIN string_map
                    THEN ElementLoopReadsUnknown(data, l[2] + l[1],
                             Put(element, string_map[field_number], string_value))
                    ELSE ElementLoopReadsUnknown(data, l[2], element)
            ELSE element

\* The loop of decode_danmaku_element.  No statement of the body raises:
\* decode_varint stops at the end of the data, slices are cut there and
\* decode_string handles its own error.
RECURSIVE ElementLoop(_, _, _)
ElementLoop(data, pos, element) ==
    IF ~(pos < Len(data)) THEN element
    ELSE LET tag == decode_varint(data, pos)
             field_number == tag[1] \div 8
             wire_type == tag[1] % 8
         IN IF wire_type = 0
            THEN LET v == decode_varint(data, tag[2])
                 IN ElementLoop(data, v[2],
                        IF field_number \in DOMAIN field_map
                        THEN Put(element, field_map[field_number], v[1])
                        ELSE element)
            ELSE IF wire_type = 2
            THEN LET l == decode_varint(data, tag[2])
                     string_value == decode_string(data, l[2], l[1])
                 IN ElementLoop(data, l[2] + l[1],
                        IF field_number \in DOMAIN string_map
                        THEN Put(element, string_map[field_number], string_value)
                        ELSE element)
            ELSE element

\* ProtobufDecoder.decode_danmaku_element: the dict, None is the empty dict.
decode_danmaku_element(data) == ElementLoop(data, 0, EmptyDict)

\* DanmakuElement.__init__
DanmakuElement(data) ==
    [id |-> Get(data, "id", 0),
     progress |-> Get(data, "progress", 0),
     mode |-> Get(data, "mode", 1),
     fontsize |-> Get(data, "fontsize", 25),
     color |-> Get(data, "color", 16777215),
     ctime |-> Get(data, "ctime", 0),
     pool |-> Get(data, "pool", 0),
     midHash |-> Get(data, "midHash", <<>>),
     content |-> Get(data, "content", <<>>),
     weight |-> Get(data, "weight", 0)]

\* Mutant: a field of another wire kind is stepped over as four bytes and
\* decoding goes on.
RECURSIVE ResponseLoopSkipsOtherKinds(_, _, _)
ResponseLoopSkipsOtherKinds(data, pos, records) ==
    IF ~(pos < Len(data)) THEN records
    ELSE LET tag == decode_varint(data, pos)
             field_number == tag[1] \div 8
             wire_type == tag[1] % 8
         IN IF field_number = 1 /\ wire_type = 2
            THEN LET l == decode_varint(data, tag[2])
                     danmaku_data == decode_danmaku_element(
                                         Slice(data, l[2], l[2] + l[1]))
                 IN ResponseLoopSkipsOtherKinds(data, l[2] + l[1],
                        IF DOMAIN danmaku_data # {}
                        THEN Append(records, DanmakuElement(danmaku_data))
                        ELSE records)
            ELSE IF wire_type = 0
            THEN ResponseLoopSkipsOtherKinds(data, decode_varint(data, tag[2])[2],
                                             records)
            ELSE IF wire_type = 2
            THEN LET l == decode_varint(data, tag[2])
                 IN ResponseLoopSkipsOtherKinds(data, l[2] + l[1], records)
            ELSE ResponseLoopSkipsOtherKinds(data, tag[2] + 4, records)

\* The loop of decode_danmaku_response.
RECURSIVE ResponseLoop(_, _, _)
ResponseLoop(data, pos, records) ==
    IF ~(pos < Len(data)) THEN records
    ELSE LET tag == decode_varint(data, pos)
             field_number == tag[1] \div 8
             wire_type == tag[1] % 8
         IN IF field_number = 1 /\ wire_type = 2
            THEN LET l == decode_varint(data, tag[2])
                     danmaku_data == decode_danmaku_element(
                                         Slice(data, l[2], l[2] + l[1]))
                 IN ResponseLoop(data, l[2] + l[1],
                        IF DOMAIN danmaku_data # {}
                        THEN Append(records, DanmakuElement(danmaku_data))
                        ELSE records)
            ELSE IF wire_type = 0
            THEN ResponseLoop(data, decode_varint(data, tag[2])[2], records)
            ELSE IF wire_type = 2
            THEN LET l == decode_varint(data, tag[2])
                 IN ResponseLoop(data, l[2] + l[1], records)
            ELSE records

\* ProtobufDecoder.decode_danmaku_response
decode_danmaku_response(data) == ResponseLoop(data, 0, <<>>)

-----------------------------------------------------------------------------
(* ProtobufDecoder.decode_danmaku_response, called on a payload.  A payload *)
(* is described by its fields, and the bytes are the protobuf encoding of   *)
(* the description.                                                         *)

Decode == "decode_danmaku_response"

MaxItems == 3
MaxRetry == 2          \* retry arguments of _request other than the default

\* A field of wire kind 0 holding value; name is the attribute the sender
\* means by it ("" when the number is none the decoder knows).
VarintField(name, num, value) ==
    [name |-> name, num |-> num, wire |-> 0, value |-> value, text |-> <<>>,
     excess |-> 0]

\* A field of wire kind 2 holding the UTF-8 bytes of text (code points); the
\* declared length is the number of bytes plus excess.
BytesField(name, num, text, excess) ==
    [name |-> name, num |-> num, wire |-> 2, value |-> 0, text |-> text,
     excess |-> excess]

\* A field of wire kind 5 (four bytes follow the tag).
Fixed32Field(num) ==
    [name |-> "", num |-> num, wire |-> 5, value |-> 0, text |-> <<1, 0, 0, 0>>,
     excess |-> 0]

f_progress == VarintField("progress", 2, 300)
f_content == BytesField("content", 7, <<104, 233>>, 0)
f_idstr == BytesField("idStr", 12, <<55>>, 0)
\* Unknown fields; the bytes of f_unk2 read as a field "progress = 5".
f_unk0 == VarintField("", 10, 200)
f_unk2 == BytesField("", 13, <<16, 5>>, 0)
f_bad == Fixed32Field(2)
\* A text whose declared length runs past the end of its sub-message.
f_short == BytesField("content", 7, <<104, 233>>, 3)

Mapped == {f_progress, f_content, f_idstr}
Unknown == {f_unk0, f_unk2}

\* The sub-messages a payload is built from.
SubMessages ==
    {<<>>, <<f_unk0>>}
    \cup {<<f>> : f \in Mapped}
    \cup {m \in Mapped \X Mapped : m[1] # m[2]}
    \cup {m \in Unknown \X {f_progress, f_content} \X Unknown : m[1] # m[3]}
    \cup {<<f_progress, f_bad, f_content>>, <<f_bad, f_content>>,
          <<f_progress, f_short>>}

\* A top-level item: an embedded sub-message (field 1, kind 2) or a field.
Elem(fields) == [elem |-> TRUE, fields |-> fields, field |-> f_unk0]
Other(field) == [elem |-> FALSE, fields |-> <<>>, field |-> field]

\* Top-level fields that are no sub-message; the bytes of t_unk2 read as a
\* sub-message holding "progress = 5".
t_unk0 == VarintField("", 1, 7)
t_unk2 == BytesField("", 3, <<10, 2, 16, 5>>, 0)
t_bad == Fixed32Field(1)

Items == {Elem(m) : m \in SubMessages} \cup {Other(f) : f \in {t_unk0, t_unk2, t_bad}}

Payloads == SeqsUpTo(Items, MaxItems)

\* The varint of n (written by the peer; read by decode_varint).
RECURSIVE EncodeVarint(_)
EncodeVarint(n) ==
    IF n < 128 THEN <<n>> ELSE <<128 + (n % 128)>> \o EncodeVarint(n \div 128)

\* The UTF-8 bytes of a text of code points below 65536.
RECURSIVE EncodeUtf8(_)
EncodeUtf8(text) ==
    IF text = <<>> THEN <<>>
    ELSE LET c == Head(text)
             b == IF c < 128 THEN <<c>>
                  ELSE IF c < 2048 THEN <<192 + (c \div 64), 128 + (c % 64)>>
                  ELSE <<224 + (c \div 4096), 128 + ((c \div 64) % 64), 128 + (c % 64)>>
         IN b \o EncodeUtf8(Tail(text))

EncodeField(f) ==
    EncodeVarint(f.num * 8 + f.wire) \o
    (IF f.wire = 0 THEN EncodeVarint(f.value)
     ELSE IF f.wire = 2
     THEN EncodeVarint(Len(EncodeUtf8(f.text)) + f.excess) \o EncodeUtf8(f.text)
     ELSE f.text)

RECURSIVE EncodeFields(_)
EncodeFields(fields) ==
    IF fields = <<>> THEN <<>>
    ELSE EncodeField(Head(fields)) \o EncodeFields(Tail(fields))

EncodeItem(item) ==
    IF item.elem
    THEN LET body == EncodeFields(item.fields)
         IN EncodeVarint(1 * 8 + 2) \o EncodeVarint(Len(body)) \o body
    ELSE EncodeField(item.field)

RECURSIVE EncodePayload(_)
EncodePayload(items) ==
    IF items = <<>> THEN <<>>
    ELSE EncodeItem(Head(items)) \o EncodePayload(Tail(items))

DecodeInit ==
    /\ entry = Decode /\ server = "arbitrary" /\ pc = "idle"
    /\ video_date = NoDate /\ start_days = 0 /\ target_count = 0
    /\ end_days = HistoryEndDays
    /\ CrawlProcess
    /\ CrawlIdle
    /\ MergeIdle
    /\ crawl = 0 /\ resp_log = {} /\ first_result = <<>>
    /\ hist_log = <<>> /\ first_log = <<>>
    /\ RequestIdle
    /\ id_pool = {}
    /\ d_msg \in Payloads
    /\ d_bytes = EncodePayload(d_msg)
    /\ d_out = <<>>
    /\ d_pc = "call"

\* The call of the decoder on the payload.
DecodeResponse ==
    /\ d_pc = "call"
    /\ d_out' = decode_danmaku_response(d_bytes)
    /\ d_pc' = "decoded"
    /\ UNCHANGED <<argVars, requestVars, pc, id_pool, maxlimit, current_danmaku, first_segment,
                   segVars, histVars, merged_danmaku, mergeVars, runVars,
                   d_msg, d_bytes>>

DecodeNext == DecodeResponse

DecodeSpec == DecodeInit /\ [][DecodeNext]_vars

-----------------------------------------------------------------------------
(* BilibiliAPI._request of src/utils/bilibili_api.py, called on its own.    *)
(* An attempt is the session call, raise_for_status and the decoding of the *)
(* response; the model keeps what each attempt met.                         *)

\* retry: int = 5
DefaultRetry == 5

Methods == {"get", "post", "put"}
Retries == (0..MaxRetry) \cup {DefaultRetry}
DecodeLevels == {0, 1, 2}

\* What an attempt meets: "fault", the session call or raise_for_status raises
\* a requests.RequestException (no connection, a timeout, an error status);
\* "json", a response whose body is a JSON document other than null; "null",
\* a response whose body is the JSON document null; "text", a response whose
\* body is no JSON document.
Outcomes == {"fault", "json", "null", "text"}

\* response.json() on a body that is no JSON document raises an error that is
\* a requests.RequestException in some releases of requests and a plain
\* ValueError in others.
JsonErrors == {"RequestException", "ValueError"}

None == "None"
Returned(value) == [kind |-> "returned", value |-> value]
Escaped(error) == [kind |-> "raised", value |-> error]
Caught == [kind |-> "caught", value |-> "RequestException"]

\* if method not in ["get", "post"]
MethodKnown(method) == method \in {"get", "post"}

\* Mutant: one attempt more than retry.
InRangeInclusive(attempt, retry) == attempt <= retry

\* for attempt in range(retry)
InRange(attempt, retry) == attempt < retry

\* response.json()
Json(outcome, json_error) ==
    CASE outcome = "json" -> Returned("document")
      [] outcome = "null" -> Returned(None)
      [] OTHER -> IF json_error = "RequestException" THEN Caught
                  ELSE Escaped(json_error)

\* The body of the try statement and its except clause.
Attempt(outcome, decode_level, json_error) ==
    IF outcome = "fault" THEN Caught
    ELSE IF decode_level = 2 THEN Json(outcome, json_error)
    ELSE IF decode_level = 1 THEN Returned("content")
    ELSE Returned("response")

Request == "request"

RequestInit ==
    /\ entry = Request /\ server = "arbitrary" /\ pc = "idle"
    /\ video_date = NoDate /\ start_days = 0 /\ target_count = 0
    /\ end_days = HistoryEndDays
    /\ CrawlProcess
    /\ CrawlIdle
    /\ MergeIdle
    /\ DecodeIdle
    /\ crawl = 0 /\ resp_log = {} /\ first_result = <<>>
    /\ hist_log = <<>> /\ first_log = <<>>
    /\ id_pool = {}
    /\ r_pc = "call"
    /\ r_args \in [method : Methods, retry : Retries, decode_level : DecodeLevels]
    /\ r_attempts = <<>>
    /\ r_result = <<>>

requestIdleVars == <<argVars, pc, id_pool, maxlimit, current_danmaku,
                     first_segment, segVars, histVars, merged_danmaku,
                     mergeVars, decodeVars, runVars>>

\* The call: a method other than get and post returns None at once.
RequestCall ==
    /\ r_pc = "call"
    /\ IF MethodKnown(r_args.method)
       THEN r_pc' = "loop" /\ UNCHANGED r_result
       ELSE r_pc' = "done" /\ r_result' = Returned(None)
    /\ UNCHANGED <<r_args, r_attempts, requestIdleVars>>

\* One pass of the loop: the attempt returns, is caught or raises.
RequestAttempt ==
    /\ r_pc = "loop"
    /\ InRange(Len(r_attempts), r_args.retry)
    /\ \E outcome \in Outcomes, json_error \in JsonErrors :
          LET a == Attempt(outcome, r_args.decode_level, json_error)
          IN  /\ r_attempts' = Append(r_attempts, outcome)
              /\ IF a = Caught
                 THEN r_pc' = "loop" /\ UNCHANGED r_result
                 ELSE r_pc' = "done" /\ r_result' = a
    /\ UNCHANGED <<r_args, requestIdleVars>>

\* The loop is over: return None.
RequestExhausted ==
    /\ r_pc = "loop"
    /\ ~InRange(Len(r_attempts), r_args.retry)
    /\ r_pc' = "done"
    /\ r_result' = Returned(None)
    /\ UNCHANGED <<r_args, r_attempts, requestIdleVars>>

RequestNext == RequestCall \/ RequestAttempt \/ RequestExhausted

RequestSpec == RequestInit /\ [][RequestNext]_vars

-----------------------------------------------------------------------------
(* Properties *)

Fingerprints(list) == {get_unique_id(d) : d \in Range(list)}

\* No two elements of the list share a fingerprint.
NoSharedFingerprint(list) ==
    \A i, j \in 1..Len(list) :
        get_unique_id(list[i]) = get_unique_id(list[j]) => i = j

\* C1: with a publish date present, the history traversal eventually leaves
\* its loop and returns, whatever the server answers.
C1_HistoryTerminates ==
    (pc = "hist" /\ video_date # NoDate) ~> (pc # "hist")

\* C2: in every state of a crawl the live accumulator during the live phase,
\* and the history accumulator during the history phase, is as long as the
\* pool is large and holds no two records with one fingerprint.
C2_EachAccumulatorMatchesPool ==
    /\ pc = "live" =>
          /\ Len(danmaku_list) = Cardinality(id_pool)
          /\ NoSharedFingerprint(danmaku_list)
    /\ pc = "hist" =>
          /\ Len(aldanmu) = Cardinality(id_pool)
          /\ NoSharedFingerprint(aldanmu)

\* C2 (amended): on a downloader whose pool is empty when the crawl starts,
\* the live and the history accumulator fill one shared pool: in every state
\* their lengths add up to the size of the pool, the pool is the set of their
\* fingerprints, and no two records of the two lists share a fingerprint.
C2_AccumulatorsSharePool ==
    /\ Len(danmaku_list) + Len(aldanmu) = Cardinality(id_pool)
    /\ Fingerprints(danmaku_list \o aldanmu) = id_pool
    /\ NoSharedFingerprint(danmaku_list \o aldanmu)
    /\ pc = "live" => Len(danmaku_list) = Cardinality(id_pool)

C2_Witness ==
    pc = "hist" /\ hist_count > 1 /\ Len(aldanmu) > 0 /\ Len(danmaku_list) > 0

\* C3: one call of get_segmented_danmaku requests at most 100 segments, and
\* the k-th request is for segment k.
C3_SegmentRequestsBounded ==
    /\ Len(seg_requests) <= 100
    /\ \A k \in 1..Len(seg_requests) : seg_requests[k] = k

C3_Witness == pc = "hist_call" /\ Len(seg_requests) = 100 /\ seg_last = "more"

\* C4: each calendar date sent to the history endpoint is the same as or
\* earlier than the date sent before it.
C4_HistoryDatesNonIncreasing ==
    Len(hist_dates) = 2 => hist_dates[2] <= hist_dates[1]


\* The first record of the list with fingerprint f.
RECURSIVE FirstWith(_, _, _)
FirstWith(list, f, i) ==
    IF get_unique_id(list[i]) = f THEN list[i] ELSE FirstWith(list, f, i + 1)

\* C5: the list the orchestrator returns holds, for every fingerprint of a
\* record decoded from the probe response, of the live list or of the history
\* list, exactly one record with that fingerprint: the first one in the order
\* probe sample, live list, history list.
C5_OutputIsFirstSeenMerge ==
    (entry = Complete /\ pc = "done") =>
        LET all == first_segment \o segmented_danmaku \o history_danmaku
        IN  /\ Fingerprints(merged_danmaku) = Fingerprints(all)
            /\ NoSharedFingerprint(merged_danmaku)
            /\ \A f \in Fingerprints(all) :
                  FirstWith(merged_danmaku, f, 1) = FirstWith(all, f, 1)

\* C6: a second merge of the same new_list right after the first changes
\* neither the caller's list nor the pool.
C6_MergeIdempotent ==
    m_pc = "again_done" =>
        /\ m_log[3].target_list = m_log[2].target_list
        /\ m_log[3].id_pool = m_log[2].id_pool
        /\ m_target = m_log[2].target_list

C6_Witness ==
    /\ m_pc = "again_done"
    /\ Len(m_log[2].target_list) > Len(m_log[1].target_list)
    /\ m_log[1].target_list # <<>>

\* The two lists have no fingerprint in common / the same fingerprints.
Disjoint(x, y) == Fingerprints(x) \cap Fingerprints(y) = {}
FullOverlap(x, y) == Fingerprints(x) = Fingerprints(y)

StartedEmpty == m_log[1].target_list = <<>> /\ m_log[1].id_pool = {}

\* C7: from an empty list and pool, merging x and then y gives a list of
\* length |x| + |y| when x and y share no fingerprint, and of length |x| when
\* they have the same fingerprints.
C7_MergeLengths ==
    (m_pc = "other_done" /\ StartedEmpty) =>
        /\ Disjoint(m_x, m_y) => Len(m_target) = Len(m_x) + Len(m_y)
        /\ FullOverlap(m_x, m_y) => Len(m_target) = Len(m_x)

\* C7 (amended): the same, for lists x and y in which no fingerprint occurs
\* twice (y may repeat fingerprints in the overlap case).
C7_MergeLengthsOfDistinct ==
    (m_pc = "other_done" /\ StartedEmpty /\ NoSharedFingerprint(m_x)) =>
        /\ (Disjoint(m_x, m_y) /\ NoSharedFingerprint(m_y)) =>
              Len(m_target) = Len(m_x) + Len(m_y)
        /\ FullOverlap(m_x, m_y) => Len(m_target) = Len(m_x)

C7_Witness ==
    /\ m_pc = "other_done" /\ StartedEmpty
    /\ NoSharedFingerprint(m_x) /\ NoSharedFingerprint(m_y)
    /\ Disjoint(m_x, m_y) /\ Len(m_x) = 1 /\ Len(m_y) = 1 /\ Len(m_target) = 2

\* C8: a segment round that ends with anything but new records is the last
\* request of the call, and the call returns the list as the earlier rounds
\* left it.
C8_SegmentStopsOnNoNews ==
    /\ [][(pc = "live" /\ seg_requests' # seg_requests /\ seg_last' # "more") =>
             (pc' # "live" /\ segmented_danmaku' = danmaku_list)]_vars
    /\ [][pc # "live" => seg_requests' = seg_requests]_vars

C8_Witness ==
    /\ seg_last = "no_new" /\ pc = "hist_call"
    /\ Len(seg_requests) = 3 /\ Len(segmented_danmaku) = 2

\* C9: with a positive target, the request that yields a sparse batch is the
\* last one of the call; when it is the first request, the call makes exactly
\* one request.
C9_SparseBatchStopsHistory ==
    (ondanmu > 0 /\ hist_sparse > 0) =>
        /\ pc # "hist"
        /\ hist_count = hist_sparse
        /\ Sparse(ldanmu, ondanmu)

C9_Witness ==
    /\ entry = Complete /\ pc = "done" /\ hist_sparse = 1 /\ hist_count = 1
    /\ Len(ldanmu) = 2

\* C10: without a publish date no history request is made: the traversal
\* returns the empty list at once and leaves the pool as it was, and the
\* orchestrator enters it only with a publish date and a positive estimate.
C10_NoDateNoHistory ==
    /\ video_date = NoDate =>
          /\ hist_count = 0 /\ hist_dates = <<>> /\ pc # "hist"
          /\ history_danmaku = <<>>
          /\ entry = History => id_pool = {}
    /\ (entry = Complete /\ hist_called) => (video_date # NoDate /\ maxlimit > 0)

C10_Witness ==
    entry = History /\ video_date = NoDate /\ hist_called /\ pc = "done"

\* C11 as stated: a request that raises counts as a round of zero records and
\* the stop condition of its loop ends the loop on that round, in the segment
\* loop and in the history loop alike.
C11_FaultyRoundEndsLoop ==
    /\ seg_last = "raised" => pc # "live"
    /\ hist_last = "raised" => pc # "hist"

\* C11, amended: a segment request that raises changes neither the list nor
\* the pool and ends the loop, which returns the list; a history request that
\* raises changes neither the accumulator, the pool nor the boundary and
\* leaves an empty batch, which ends the loop and returns the accumulator
\* exactly when the target density is positive.  A batch whose boundary
\* datetime.fromtimestamp rejects is merged, the boundary is set, and the
\* fault leaves an empty batch and the date as it was, with the same ending.
C11_FaultCountsAsZeroRecords ==
    [][ /\ (pc = "live" /\ seg_last' = "raised")
            => /\ danmaku_list' = danmaku_list
               /\ id_pool' = id_pool
               /\ pc' # "live"
               /\ segmented_danmaku' = danmaku_list
        /\ (pc = "hist" /\ current_date >= start_date
               /\ QueryGate(first_date, ldanmu, ondanmu) /\ hist_last' = "raised")
            => /\ ldanmu' = <<>>
               /\ aldanmu' = aldanmu
               /\ id_pool' = id_pool
               /\ first_date' = first_date
               /\ IF ondanmu > 0
                  THEN pc' # "hist" /\ history_danmaku' = aldanmu
                  ELSE pc' = "hist"
        /\ (pc = "hist" /\ current_date >= start_date
               /\ QueryGate(first_date, ldanmu, ondanmu)
               /\ hist_last' = "unconverted")
            => /\ ldanmu' = <<>>
               /\ aldanmu' # <<>>
               /\ FromTimestampRaises(first_date')
               /\ current_date' = current_date
               /\ IF ondanmu > 0
                  THEN pc' # "hist" /\ history_danmaku' = aldanmu'
                  ELSE pc' = "hist" ]_vars

\* Both loops of one crawl were ended by a request that raised, each after a
\* round that had merged records.
C11_Witness ==
    /\ pc = "done"
    /\ seg_last = "raised" /\ segmented_danmaku # <<>>
    /\ hist_last = "raised" /\ ondanmu > 0 /\ history_danmaku # <<>>

\* C12 as stated: a second crawl on the same downloader, against a server
\* that answers as it did during the first, returns the records the first
\* crawl returned.
C12_SecondCrawlReturnsSame ==
    (crawl = 2 /\ pc = "done") => Range(merged_danmaku) = Range(first_result)

\* How many times d occurs in list.
Count(d, list) == Cardinality({i \in 1..Len(list) : list[i] = d})

\* C13: after the sort in save_danmaku_xml the caller's list holds every
\* record as often as the list handed over did, and the offsets of adjacent
\* records never decrease; the file lists the records in that order.
C13_SortedByProgress ==
    m_pc = "saved" =>
        /\ Len(m_target) = Len(m_x)
        /\ \A d \in Range(m_x) \cup Range(m_target) : Count(d, m_target) = Count(d, m_x)
        /\ \A i \in 1..(Len(m_target) - 1) :
               m_target[i].progress <= m_target[i + 1].progress
        /\ m_log[1].elements = m_target

\* A list of three records in descending order of offset was sorted.
C13_Witness ==
    /\ m_pc = "saved"
    /\ Len(m_x) = 3
    /\ m_x[1].progress > m_x[2].progress /\ m_x[2].progress > m_x[3].progress
    /\ m_target # m_x

\* What a payload description says, read off the description and not off the
\* bytes.  A field is plain when its kind is 0 or 2 and its length is right.
PlainField(f) == f.wire \in {0, 2} /\ f.excess = 0
OtherKind(f) == f.wire \notin {0, 2}
UnknownField(f) == f.name = "" /\ f.wire \in {0, 2}

PlainFields(fields) == \A i \in 1..Len(fields) : PlainField(fields[i])

WellFormed(items) ==
    \A i \in 1..Len(items) :
        IF items[i].elem THEN PlainFields(items[i].fields)
        ELSE PlainField(items[i].field)

\* The attributes the fields of a sub-message give, the last value of each.
RECURSIVE Described(_)
Described(fields) ==
    IF fields = <<>> THEN EmptyDict
    ELSE LET f == fields[Len(fields)]
             front == Described(SubSeq(fields, 1, Len(fields) - 1))
         IN IF f.name = "" THEN front
            ELSE Put(front, f.name, IF f.wire = 0 THEN f.value ELSE f.text)

HasMapped(fields) == \E i \in 1..Len(fields) : fields[i].name # ""

\* The sub-messages of a payload, in order.
RECURSIVE SubsOf(_)
SubsOf(items) ==
    IF items = <<>> THEN <<>>
    ELSE (IF Head(items).elem THEN <<Head(items).fields>> ELSE <<>>)
         \o SubsOf(Tail(items))

\* The records of the sub-messages that name at least one attribute.
RECURSIVE RecordsOf(_)
RecordsOf(subs) ==
    IF subs = <<>> THEN <<>>
    ELSE (IF HasMapped(Head(subs)) THEN <<DanmakuElement(Described(Head(subs)))>>
          ELSE <<>>)
         \o RecordsOf(Tail(subs))

\* C14 as stated: a well-formed payload with N sub-messages decodes to N
\* records, the i-th holding every attribute the i-th sub-message encodes.
C14_RecordPerSubMessage ==
    (d_pc = "decoded" /\ WellFormed(d_msg)) =>
        LET subs == SubsOf(d_msg)
        IN  /\ Len(d_out) = Len(subs)
            /\ \A i \in 1..Len(subs) :
                   \A name \in DOMAIN Described(subs[i]) :
                       /\ name \in DOMAIN d_out[i]
                       /\ d_out[i][name] = Described(subs[i])[name]

\* C14, amended: a well-formed payload decodes to one record for each
\* sub-message that encodes at least one mapped field, in payload order, and
\* the record holds the encoded value of every mapped field but idStr, which
\* a record has no attribute for.
C14_RecordPerMappedSubMessage ==
    (d_pc = "decoded" /\ WellFormed(d_msg)) =>
        LET subs == SelectSeq(SubsOf(d_msg), HasMapped)
        IN  /\ Len(d_out) = Len(subs)
            /\ \A i \in 1..Len(subs) :
                   \A name \in DOMAIN Described(subs[i]) \ {"idStr"} :
                       d_out[i][name] = Described(subs[i])[name]

\* Three sub-messages were decoded, one of them without a mapped field, and
\* two records came out with their encoded values.
C14_Witness ==
    /\ d_pc = "decoded" /\ WellFormed(d_msg)
    /\ Len(SubsOf(d_msg)) = 3
    /\ Len(d_out) = 2
    /\ d_out[1].progress = 300 /\ d_out[1].content = <<104, 233>>
    /\ d_out[2].progress = 0 /\ d_out[2].content = <<104, 233>>

\* The description without its unknown fields of kind 0 or 2.
RECURSIVE KnownFields(_)
KnownFields(fields) ==
    IF fields = <<>> THEN <<>>
    ELSE (IF UnknownField(Head(fields)) THEN <<>> ELSE <<Head(fields)>>)
         \o KnownFields(Tail(fields))

RECURSIVE WithoutUnknown(_)
WithoutUnknown(items) ==
    IF items = <<>> THEN <<>>
    ELSE LET it == Head(items)
         IN (IF it.elem THEN <<Elem(KnownFields(it.fields))>>
             ELSE IF UnknownField(it.field) THEN <<>> ELSE <<it>>)
            \o WithoutUnknown(Tail(items))

\* C15: unknown fields of kind 0 or 2, at top level or inside a sub-message,
\* change nothing: the payload decodes to what the payload without them
\* decodes to.
C15_UnknownFieldsSkipped ==
    d_pc = "decoded" =>
        d_out = decode_danmaku_response(EncodePayload(WithoutUnknown(d_msg)))

\* A sub-message with an unknown field before and after its offset, itself
\* between two unknown top-level fields, gave one record with that offset.
C15_Witness ==
    /\ d_pc = "decoded"
    /\ d_msg = <<Other(t_unk0), Elem(<<f_unk0, f_progress, f_unk2>>), Other(t_unk2)>>
    /\ Len(d_out) = 1
    /\ d_out[1].progress = 300

\* A field whose declared length runs past the bytes that are there.
ShortField(f) == f.wire = 2 /\ f.excess > 0

NoShortField(items) ==
    \A i \in 1..Len(items) :
        /\ ~ShortField(items[i].field)
        /\ \A j \in 1..Len(items[i].fields) : ~ShortField(items[i].fields[j])

NoOtherKind(items) ==
    \A i \in 1..Len(items) :
        /\ ~items[i].elem => ~OtherKind(items[i].field)
        /\ \A j \in 1..Len(items[i].fields) : ~OtherKind(items[i].fields[j])

\* The fields in front of the first short one.
RECURSIVE BeforeShortField(_)
BeforeShortField(fields) ==
    IF fields = <<>> \/ ShortField(Head(fields)) THEN <<>>
    ELSE <<Head(fields)>> \o BeforeShortField(Tail(fields))

RECURSIVE SubsBeforeShortField(_)
SubsBeforeShortField(subs) ==
    IF subs = <<>> THEN <<>>
    ELSE <<BeforeShortField(Head(subs))>> \o SubsBeforeShortField(Tail(subs))

\* C19: when the only faults of a payload are fields of a sub-message whose
\* declared length exceeds the bytes left, each record holds the fields in
\* front of its faulty field and nothing of the faulty field.
C19_ShortFieldGivesNoValue ==
    (d_pc = "decoded" /\ NoOtherKind(d_msg)) =>
        d_out = RecordsOf(SubsBeforeShortField(SubsOf(d_msg)))

\* The fields in front of the first one of another wire kind.
RECURSIVE BeforeOtherKind(_)
BeforeOtherKind(fields) ==
    IF fields = <<>> \/ OtherKind(Head(fields)) THEN <<>>
    ELSE <<Head(fields)>> \o BeforeOtherKind(Tail(fields))

\* The sub-messages in front of the first top-level field of another wire
\* kind, each cut in front of its own first field of another wire kind.
RECURSIVE SubsBeforeOtherKind(_)
SubsBeforeOtherKind(items) ==
    IF items = <<>> THEN <<>>
    ELSE LET it == Head(items)
         IN IF it.elem
            THEN <<BeforeOtherKind(it.fields)>> \o SubsBeforeOtherKind(Tail(items))
            ELSE IF OtherKind(it.field) THEN <<>>
            ELSE SubsBeforeOtherKind(Tail(items))

\* C20: a top-level field of a wire kind other than 0 and 2 ends the
\* decoding, and the records of the sub-messages in front of it are
\* returned in order; such a field inside a sub-message ends that record
\* only, which keeps the fields in front of it, and the sub-messages behind
\* it are decoded.
C20_OtherKindEndsMessage ==
    (d_pc = "decoded" /\ NoShortField(d_msg)) =>
        d_out = RecordsOf(SubsBeforeOtherKind(d_msg))

\* A sub-message was cut at a field of kind 5, the sub-message behind it was
\* decoded, and a top-level field of kind 5 ended the decoding.
C20_Witness ==
    /\ d_pc = "decoded"
    /\ d_msg = <<Elem(<<f_progress, f_bad, f_content>>), Elem(<<f_content>>),
                 Other(t_bad)>>
    /\ Len(d_out) = 2
    /\ d_out[1].progress = 300 /\ d_out[1].content = <<>>
    /\ d_out[2].content = <<104, 233>>

\* Same offset, texts of one length, author hashes with one truncated hash,
\* and not the same text.
Collide(a, b) ==
    /\ a.progress = b.progress
    /\ Len(a.content) = Len(b.content)
    /\ Mod2p32(StrHash(a.midHash)) = Mod2p32(StrHash(b.midHash))
    /\ a.content # b.content

\* What the first merge appended to the caller's list.
Added == SubSeq(m_log[2].target_list, Len(m_log[1].target_list) + 1,
                Len(m_log[2].target_list))

\* The first element of list with the fingerprint of d.
FirstLike(d, list) ==
    list[CHOOSE i \in 1..Len(list) :
            /\ get_unique_id(list[i]) = get_unique_id(d)
            /\ \A k \in 1..(i - 1) : get_unique_id(list[k]) # get_unique_id(d)]

\* C16: two records of new_list that differ in text but agree in offset,
\* text length and truncated author hash have one fingerprint, and of the
\* records of new_list with one fingerprint the merge appends the first one
\* only (none if the pool or the caller's list held the fingerprint before).
C16_CollidingRecordsCollapse ==
    m_pc \in {"second", "again_done", "other_done"} =>
        /\ \A i, j \in 1..Len(m_x) :
               Collide(m_x[i], m_x[j]) => get_unique_id(m_x[i]) = get_unique_id(m_x[j])
        /\ \A j \in 1..Len(m_x) :
               LET Like(d) == get_unique_id(d) = get_unique_id(m_x[j])
               IN SelectSeq(Added, Like) =
                      IF get_unique_id(m_x[j]) \in
                             m_log[1].id_pool \cup Fingerprints(m_log[1].target_list)
                      THEN <<>>
                      ELSE <<FirstLike(m_x[j], m_x)>>

\* R3 and R4, which differ in text and author hash, were merged into an
\* empty list with an empty pool, and R3 alone is stored.
C16_Witness ==
    /\ m_pc = "second"
    /\ m_x = <<R3, R4>>
    /\ Collide(R3, R4)
    /\ StartedEmpty
    /\ m_target = <<R3>>

\* C17: a round of the history loop that receives a non-empty batch while the
\* boundary is set moves the boundary back by at least one day.
C17_RetargetStepsBackADay ==
    [][(pc = "hist" /\ current_date >= start_date /\ first_date # Wide(0)
          /\ QueryGate(first_date, ldanmu, ondanmu) /\ ldanmu' # <<>>)
       => ~WideLess(WidePlus(first_date, -DaySeconds), first_date')]_vars

\* C18: no history request is for a date before the date of the lower bound
\* publish date + start_days, whether the date came from the clock or from
\* the timestamps of a batch.
C18_NoRequestBelowLowerBound ==
    \A i \in 1..Len(hist_dates) : hist_dates[i] >= DateOf(start_date)

\* A request was sent for a date taken from a batch, the next batch put the
\* date below the lower bound, and the traversal returned without a request
\* for it.
C18_Witness ==
    /\ pc \in {"merge", "done"}
    /\ hist_count >= 2
    /\ hist_dates[2] < hist_dates[1]
    /\ first_date # Wide(0)
    /\ current_date < start_date

\* The attempts of a _request call that were caught: a RequestException of
\* the session call or of raise_for_status, or one of response.json().
Failed(i) ==
    \/ r_attempts[i] = "fault"
    \/ r_attempts[i] = "text" /\ r_args.decode_level = 2

TransportFault(i) == r_attempts[i] = "fault"

\* C21 as stated: _request makes at most retry attempts and none after one
\* that was not caught, raises no transport fault, and returns None exactly
\* when every attempt failed with a transport fault or the method is neither
\* get nor post.
C21_NoneExactlyAfterFaults ==
    r_pc = "done" =>
        /\ Len(r_attempts) <= r_args.retry
        /\ \A i \in 1..(Len(r_attempts) - 1) : Failed(i)
        /\ r_result.kind = "raised" => ~TransportFault(Len(r_attempts))
        /\ r_result.kind = "returned" =>
              (r_result.value = None <=>
                  \/ ~MethodKnown(r_args.method)
                  \/ \A i \in 1..Len(r_attempts) : TransportFault(i))

\* C21, amended: _request makes at most retry attempts, every attempt before
\* the last one was caught, and no transport fault is raised to the caller;
\* it returns None exactly when the method is neither get nor post, or every
\* attempt of the retry ones was caught, or decode_level is 2 and the body of
\* the response is the JSON document null.
C21_NoneAfterFaultsOrNullBody ==
    /\ r_pc # "off" => Len(r_attempts) <= r_args.retry
    /\ r_pc # "off" => \A i \in 1..(Len(r_attempts) - 1) : Failed(i)
    /\ r_pc = "done" /\ r_result.kind = "raised" =>
          /\ r_attempts[Len(r_attempts)] = "text"
          /\ r_args.decode_level = 2
          /\ r_result.value # "RequestException"
    /\ r_pc = "done" /\ r_result.kind = "returned" =>
          (r_result.value = None <=>
              \/ ~MethodKnown(r_args.method)
              \/ /\ Len(r_attempts) = r_args.retry
                 /\ \A i \in 1..Len(r_attempts) : Failed(i)
              \/ /\ r_attempts # <<>>
                 /\ r_attempts[Len(r_attempts)] = "null"
                 /\ r_args.decode_level = 2)

\* A call with the default retry met five transport faults and returned None.
C21_Witness ==
    /\ r_pc = "done"
    /\ r_args.retry = DefaultRetry
    /\ Len(r_attempts) = DefaultRetry
    /\ \A i \in 1..Len(r_attempts) : TransportFault(i)
    /\ r_result = Returned(None)

\* C22: with a positive target density the query gate is true wherever the
\* history loop stands at its head, so every iteration that is entered sends
\* its request: no state at the gate has a boundary and a sparse last batch.
C22_GateOpenAtEveryIteration ==
    pc = "hist" /\ ondanmu > 0 =>
        /\ QueryGate(first_date, ldanmu, ondanmu)
        /\ ~(first_date # Wide(0) /\ 2 * Len(ldanmu) < Min(ondanmu, DensityCap))

\* The loop is about to enter an iteration after one that set the boundary:
\* the gate is open by the density of the last batch alone.
C22_Witness ==
    /\ pc = "hist" /\ ondanmu > 0
    /\ HistoryLoopCondition
    /\ first_date # Wide(0)
    /\ hist_count >= 1
    /\ ~Sparse(ldanmu, ondanmu)

\* C23: a crawl that started on an empty pool returns the live list followed
\* by the history list: the two lists share no fingerprint, neither holds a
\* fingerprint twice, and the final merge drops no record.
C23_FinalMergeKeepsAll ==
    (entry = Complete /\ pc = "done") =>
        /\ NoSharedFingerprint(segmented_danmaku \o history_danmaku)
        /\ merged_danmaku = segmented_danmaku \o history_danmaku
        /\ Len(merged_danmaku) = Len(segmented_danmaku) + Len(history_danmaku)

\* A crawl has returned a list made of live records and of history records.
C23_Witness ==
    /\ entry = Complete /\ pc = "done"
    /\ segmented_danmaku # <<>>
    /\ history_danmaku # <<>>
    /\ Len(merged_danmaku) = Len(segmented_danmaku) + Len(history_danmaku)

\* C24: once a history response was decoded, every record of the decoded
\* batch has its fingerprint in the pool, and a record with that fingerprint
\* is in the live list or in the history accumulator (the list returned).
C24_DecodedBatchIsMerged ==
    hist_called =>
        \A i \in 1..Len(ldanmu) :
            /\ get_unique_id(ldanmu[i]) \in id_pool
            /\ get_unique_id(ldanmu[i]) \in Fingerprints(danmaku_list \o aldanmu)

\* list is the beginning of other.
IsPrefix(list, other) ==
    /\ Len(list) <= Len(other)
    /\ \A i \in 1..Len(list) : list[i] = other[i]

\* C25: a run of the history traversal with another end_days, on the same
\* clock, pool and server answers, sends the requests the first run sent,
\* the first of them for yesterday, and returns the list the first returned.
C25_EndDaysHasNoEffect ==
    /\ hist_log # <<>> => hist_log[1] = DateOf(NowEpoch - DaySeconds)
    /\ crawl = 2 => IsPrefix(hist_log, first_log)
    /\ crawl = 2 /\ pc = "done" =>
          /\ hist_log = first_log
          /\ history_danmaku = first_result

\* The second run, called with another end_days, has returned a list of
\* records after requests of its own.
C25_Witness ==
    /\ crawl = 2 /\ pc = "done"
    /\ end_days # HistoryEndDays
    /\ Len(hist_log) > 1
    /\ history_danmaku # <<>>

====
